---- MODULE Spec2Model ----
(***************************************************************************)
(* Bidirectional first-write-wins conversion cache of                      *)
(* numerals-converter-js: the Redis and the PostgreSQL repository, and the *)
(* ConversionService that reads through them and populates them with      *)
(* detached background saves.                                              *)
(*                                                                         *)
(* A Roman numeral is a sequence of one-character strings, <<"I","V">>.    *)
(* A value stored under a Redis key is a string as well: the arabic number *)
(* under roman:<r> is its decimal digit sequence, <<"4","2">>.             *)
(***************************************************************************)
EXTENDS Integers, Sequences, FiniteSets, TLC

\* ------------------------------------------------------------------ bounds

\* Number of request slots: calls that can be in flight at once.
NumProcs == 3

\* Direct repository calls use arabic keys 1..MaxArabic.
MaxArabic == 2

\* Number of request slots that carry Service requests.
NumRequests == 2

\* Number of request slots that call deleteAll.
NumClears == 1

\* Longest string over the input alphabet given to romanToArabic.
MaxLen == 4

\* Number of callers that save while a getAll runs.
NumWriters == 1

\* ------------------------------------------------ ConversionService tables

\* ConversionService.romanNumerals: the descending 13-entry table.
romanNumerals ==
  << [value |-> 1000, symbol |-> <<"M">>],
     [value |-> 900,  symbol |-> <<"C","M">>],
     [value |-> 500,  symbol |-> <<"D">>],
     [value |-> 400,  symbol |-> <<"C","D">>],
     [value |-> 100,  symbol |-> <<"C">>],
     [value |-> 90,   symbol |-> <<"X","C">>],
     [value |-> 50,   symbol |-> <<"L">>],
     [value |-> 40,   symbol |-> <<"X","L">>],
     [value |-> 10,   symbol |-> <<"X">>],
     [value |-> 9,    symbol |-> <<"I","X">>],
     [value |-> 5,    symbol |-> <<"V">>],
     [value |-> 4,    symbol |-> <<"I","V">>],
     [value |-> 1,    symbol |-> <<"I">>] >>

\* Mutant of the map: without its two-character keys.
romanToArabicMapSinglesOnly(key) ==
  Len(key) = 1 /\ \E i \in 1..Len(romanNumerals) : romanNumerals[i].symbol = key

\* ConversionService.romanToArabicMap: has(key) and get(key).
romanToArabicMapHas(key) ==
  \E i \in 1..Len(romanNumerals) : romanNumerals[i].symbol = key

romanToArabicMapGet(key) ==
  LET i == CHOOSE j \in 1..Len(romanNumerals) : romanNumerals[j].symbol = key
  IN  romanNumerals[i].value

\* The for/while loops of convertArabicToRoman, from table entry i on.
RECURSIVE GreedyFrom(_, _, _)
GreedyFrom(remaining, i, result) ==
  IF i > Len(romanNumerals) THEN result
  ELSE IF remaining >= romanNumerals[i].value
       THEN GreedyFrom(remaining - romanNumerals[i].value, i,
                       result \o romanNumerals[i].symbol)
       ELSE GreedyFrom(remaining, i + 1, result)

convertArabicToRoman(arabic) == GreedyFrom(arabic, 1, <<>>)

\* Mutant of the loops: an if in place of the while.
RECURSIVE GreedyLoopOncePerEntry(_, _, _, _)
GreedyLoopOncePerEntry(remaining, i, result, appended) ==
  IF i > Len(romanNumerals)
  THEN [result |-> result, remaining |-> remaining, appended |-> appended]
  ELSE IF remaining >= romanNumerals[i].value
       THEN GreedyLoopOncePerEntry(remaining - romanNumerals[i].value, i + 1,
                                   result \o romanNumerals[i].symbol, appended + 1)
       ELSE GreedyLoopOncePerEntry(remaining, i + 1, result, appended)

\* The same loops with what they leave behind: result, remaining, and the
\* number of times result += symbol ran.
RECURSIVE GreedyLoop(_, _, _, _)
GreedyLoop(remaining, i, result, appended) ==
  IF i > Len(romanNumerals)
  THEN [result |-> result, remaining |-> remaining, appended |-> appended]
  ELSE IF remaining >= romanNumerals[i].value
       THEN GreedyLoop(remaining - romanNumerals[i].value, i,
                       result \o romanNumerals[i].symbol, appended + 1)
       ELSE GreedyLoop(remaining, i + 1, result, appended)

\* The while loop of convertRomanToArabic from 0-based position i; a throw is
\* the value -1.
RECURSIVE ScanFrom(_, _, _)
ScanFrom(roman, i, result) ==
  IF ~(i < Len(roman)) THEN result
  ELSE IF i + 1 < Len(roman) /\ romanToArabicMapHas(SubSeq(roman, i + 1, i + 2))
       THEN ScanFrom(roman, i + 2,
                     result + romanToArabicMapGet(SubSeq(roman, i + 1, i + 2)))
       ELSE IF romanToArabicMapHas(<<roman[i + 1]>>)
            THEN ScanFrom(roman, i + 1, result + romanToArabicMapGet(<<roman[i + 1]>>))
            ELSE -1

convertRomanToArabic(roman) == ScanFrom(roman, 0, 0)

\* A regular expression /sub/ with sub a literal: roman holds sub contiguously.
Contains(roman, sub) ==
  \E i \in 1..(Len(roman) - Len(sub) + 1) : SubSeq(roman, i, i + Len(sub) - 1) = sub

\* /c{k,}/: k or more consecutive c.
Repeats(roman, c, k) == Contains(roman, [j \in 1..k |-> c])

\* Mutant of the array: without its last three patterns.
MatchesInvalidPatternNoSubtractive(roman) ==
  \/ \E c \in {"I", "X", "C", "M"} : Repeats(roman, c, 4)
  \/ \E c \in {"V", "L", "D"} : Repeats(roman, c, 2)
  \/ \E pair \in { <<"I","L">>, <<"I","C">>, <<"I","D">>, <<"I","M">>,
                   <<"X","D">>, <<"X","M">>,
                   <<"V","L">>, <<"V","C">>, <<"V","D">>, <<"V","M">>,
                   <<"L","C">>, <<"L","D">>, <<"L","M">>, <<"D","M">> } :
        Contains(roman, pair)

\* The invalidPatterns array of isValidRomanNumeral.
MatchesInvalidPattern(roman) ==
  \/ \E c \in {"I", "X", "C", "M"} : Repeats(roman, c, 4)
  \/ \E c \in {"V", "L", "D"} : Repeats(roman, c, 2)
  \/ \E pair \in { <<"I","L">>, <<"I","C">>, <<"I","D">>, <<"I","M">>,
                   <<"X","D">>, <<"X","M">>,
                   <<"V","L">>, <<"V","C">>, <<"V","D">>, <<"V","M">>,
                   <<"L","C">>, <<"L","D">>, <<"L","M">>, <<"D","M">> } :
        Contains(roman, pair)
  \/ \E big \in {"V", "X"} : Contains(roman, <<"I", "I", big>>)
  \/ \E big \in {"L", "C"} : Contains(roman, <<"X", "X", big>>)
  \/ \E big \in {"D", "M"} : Contains(roman, <<"C", "C", big>>)

isValidRomanNumeral(roman) ==
  /\ Len(roman) > 0
  /\ \A i \in 1..Len(roman) : roman[i] \in {"I", "V", "X", "L", "C", "D", "M"}
  /\ ~MatchesInvalidPattern(roman)
  /\ convertRomanToArabic(roman) # -1

\* String.prototype.toUpperCase on one character of the input alphabet.
UpperChar(c) ==
  CASE c = "i" -> "I" [] c = "v" -> "V" [] c = "x" -> "X" [] c = "l" -> "L"
    [] c = "c" -> "C" [] c = "d" -> "D" [] c = "m" -> "M" [] OTHER -> c

toUpperCase(s) == [i \in 1..Len(s) |-> UpperChar(s[i])]

\* String.prototype.trim: leading and trailing white space removed.
RECURSIVE trim(_)
trim(s) ==
  IF Len(s) = 0 THEN s
  ELSE IF s[1] = " " THEN trim(Tail(s))
  ELSE IF s[Len(s)] = " " THEN trim(SubSeq(s, 1, Len(s) - 1))
  ELSE s

\* Mutant of the normalization: trimmed only.
NormalizeTrimOnly(roman) == trim(roman)

\* roman.trim().toUpperCase() of romanToArabic.
Normalize(roman) == toUpperCase(trim(roman))

\* Number.prototype.toString and parseInt(_, 10) for integers n >= 0.
Digit(d) == CASE d = 0 -> "0" [] d = 1 -> "1" [] d = 2 -> "2" [] d = 3 -> "3"
              [] d = 4 -> "4" [] d = 5 -> "5" [] d = 6 -> "6" [] d = 7 -> "7"
              [] d = 8 -> "8" [] d = 9 -> "9"

DigitValue(c) == CHOOSE d \in 0..9 : Digit(d) = c

RECURSIVE toString(_)
toString(n) == IF n < 10 THEN <<Digit(n)>> ELSE toString(n \div 10) \o <<Digit(n % 10)>>

RECURSIVE parseInt(_)
parseInt(s) ==
  IF Len(s) = 1 THEN DigitValue(s[1])
  ELSE 10 * parseInt(SubSeq(s, 1, Len(s) - 1)) + DigitValue(s[Len(s)])

\* ------------------------------------------------------------------ state

VARIABLES
  backend,    \* "redis" or "postgres": RepositoryFactory's choice at startup
  arabicKV,   \* Redis keys arabic:<a>: a function from a to the stored roman
  romanKV,    \* Redis keys roman:<r>: a function from r to the stored string
  sortedSet,  \* Redis sorted set conversions:all: members <<a, r>>, score a
  rows,       \* PostgreSQL table conversions: records [arabic, roman]
  clients,    \* PostgreSQL pool: clients checked out
  pc,         \* per task: "idle", "conn", "exec", "keysR", "del", "range", "done"
  call,       \* per task: the call it runs, [op, a, k, r]: the number argument
              \* is a + 1/2 when k = "half", NaN when k = "NaN", else a
  res,        \* per task: what its call returned or threw, [kind, a, r]
  scanned,    \* per task: the key lists a Redis deleteAll has read, [ak, rk]
  issued,     \* per request: the save calls the Service has issued, in order
  saveLog     \* history: the saves the backend has executed, in its order

vars == << backend, arabicKV, romanKV, sortedSet, rows, clients,
           pc, call, res, scanned, issued, saveLog >>

store == << arabicKV, romanKV, sortedSet, rows >>

\* Request slots, each with the slots of the detached saves its request may
\* start: one per Service call, two for the two calls of testInverseProperty.
Procs == 1..NumProcs
Bg(p) == p + NumProcs
Bg2(p) == p + 2 * NumProcs
Tasks == 1..(3 * NumProcs)

\* The request that started the detached save of slot t.
Issuer(t) == IF t > 2 * NumProcs THEN t - 2 * NumProcs ELSE t - NumProcs

ArabicVals == 1..MaxArabic
RomanVals == { convertArabicToRoman(n) : n \in ArabicVals }

NoCall == [op |-> "none", a |-> 0, k |-> "int", r |-> <<>>]
NoRes == [kind |-> "none", a |-> 0, r |-> <<>>]
NoScan == [ak |-> {}, rk |-> {}]

Result(kind) == [kind |-> kind, a |-> 0, r |-> <<>>]

\* Pool({max: 20}) of the PostgresRepository constructor.
PoolMax == 20

Init ==
  /\ backend \in {"redis", "postgres"}
  /\ arabicKV = << >>
  /\ romanKV = << >>
  /\ sortedSet = {}
  /\ rows = {}
  /\ clients = 0
  /\ pc = [t \in Tasks |-> "idle"]
  /\ call = [t \in Tasks |-> NoCall]
  /\ res = [t \in Tasks |-> NoRes]
  /\ scanned = [t \in Tasks |-> NoScan]
  /\ issued = [p \in Procs |-> << >>]
  /\ saveLog = << >>

\* ------------------------------------------------------- RedisRepository

\* Mutants of the Lua script: without the ZADD; without the SET of the roman
\* key; writing whenever either key is absent; and the unconditional pipeline
\* of SET, SET, ZADD.
RedisSaveScriptNoIndex(kv, arabic, roman) ==
  IF arabic \notin DOMAIN kv.a /\ roman \notin DOMAIN kv.r
  THEN [a |-> [k \in DOMAIN kv.a \cup {arabic} |->
                 IF k = arabic THEN roman ELSE kv.a[k]],
        r |-> [k \in DOMAIN kv.r \cup {roman} |->
                 IF k = roman THEN toString(arabic) ELSE kv.r[k]],
        z |-> kv.z]
  ELSE kv

RedisSaveScriptNoRoman(kv, arabic, roman) ==
  IF arabic \notin DOMAIN kv.a /\ roman \notin DOMAIN kv.r
  THEN [a |-> [k \in DOMAIN kv.a \cup {arabic} |->
                 IF k = arabic THEN roman ELSE kv.a[k]],
        r |-> kv.r,
        z |-> kv.z \cup {<<arabic, roman>>}]
  ELSE kv

RedisSaveLastWriteWins(kv, arabic, roman) ==
  [a |-> [k \in DOMAIN kv.a \cup {arabic} |->
            IF k = arabic THEN roman ELSE kv.a[k]],
   r |-> [k \in DOMAIN kv.r \cup {roman} |->
            IF k = roman THEN toString(arabic) ELSE kv.r[k]],
   z |-> kv.z \cup {<<arabic, roman>>}]

RedisSaveScriptEitherAbsent(kv, arabic, roman) ==
  IF arabic \notin DOMAIN kv.a \/ roman \notin DOMAIN kv.r
  THEN RedisSaveLastWriteWins(kv, arabic, roman)
  ELSE kv

\* Mutant of the script: the ZADD outside the check.
RedisSaveScriptIndexAlways(kv, arabic, roman) ==
  IF arabic \notin DOMAIN kv.a /\ roman \notin DOMAIN kv.r
  THEN [a |-> [k \in DOMAIN kv.a \cup {arabic} |->
                 IF k = arabic THEN roman ELSE kv.a[k]],
        r |-> [k \in DOMAIN kv.r \cup {roman} |->
                 IF k = roman THEN toString(arabic) ELSE kv.r[k]],
        z |-> kv.z \cup {<<arabic, roman>>}]
  ELSE [kv EXCEPT !.z = @ \cup {<<arabic, roman>>}]

\* The Lua script of RedisRepository.save on the keyspace kv = [a, r, z]: the
\* three writes when both GETs return false, nothing otherwise.
RedisSaveScript(kv, arabic, roman) ==
  IF arabic \notin DOMAIN kv.a /\ roman \notin DOMAIN kv.r
  THEN [a |-> [k \in DOMAIN kv.a \cup {arabic} |->
                 IF k = arabic THEN roman ELSE kv.a[k]],
        r |-> [k \in DOMAIN kv.r \cup {roman} |->
                 IF k = roman THEN toString(arabic) ELSE kv.r[k]],
        z |-> kv.z \cup {<<arabic, roman>>}]
  ELSE kv

\* redis.get of findByArabic: the roman, or null.
RedisFindByArabic(arabic) ==
  IF arabic \in DOMAIN arabicKV
  THEN [kind |-> "roman", a |-> 0, r |-> arabicKV[arabic]]
  ELSE Result("null")

\* findByRoman: result ? parseInt(result, 10) : null.
RedisFindByRoman(roman) ==
  IF roman \in DOMAIN romanKV /\ Len(romanKV[roman]) > 0
  THEN [kind |-> "arabic", a |-> parseInt(romanKV[roman]), r |-> <<>>]
  ELSE Result("null")

\* ----------------------------------------------------- PostgresRepository

\* Mutant of the INSERT: column roman without its UNIQUE constraint.
PgInsertNoRomanUnique(table, arabic, roman) ==
  IF \E w \in table : w.arabic = arabic
  THEN [rows |-> table, code |-> ""]
  ELSE [rows |-> table \cup {[arabic |-> arabic, roman |-> roman]}, code |-> ""]

\* Mutant of the INSERT: ON CONFLICT (arabic) DO UPDATE SET roman.
PgInsertUpsert(table, arabic, roman) ==
  IF \E w \in table : w.roman = roman /\ w.arabic # arabic
  THEN [rows |-> table, code |-> "23505"]
  ELSE [rows |-> { w \in table : w.arabic # arabic }
                 \cup {[arabic |-> arabic, roman |-> roman]},
        code |-> ""]

\* INSERT INTO conversions ... ON CONFLICT (arabic) DO NOTHING on a table whose
\* columns arabic and roman are both UNIQUE: the rows after it and the error
\* code it raises ("" for none).
PgInsert(table, arabic, roman) ==
  IF \E w \in table : w.arabic = arabic
  THEN [rows |-> table, code |-> ""]
  ELSE IF \E w \in table : w.roman = roman
       THEN [rows |-> table, code |-> "23505"]
       ELSE [rows |-> table \cup {[arabic |-> arabic, roman |-> roman]},
             code |-> ""]

\* Mutant of the catch block: every error is rethrown.
PgSaveRethrowsAll(code) == TRUE

\* Mutant of the catch block: no error is rethrown.
PgSaveRethrowsNone(code) == FALSE

\* The catch block of PostgresRepository.save: whether the error is rethrown.
PgSaveRethrows(code) == code # "23505"

\* SELECT roman FROM conversions WHERE arabic = $1; rows[0]?.roman || null.
PgFindByArabic(arabic) ==
  IF \E w \in rows : w.arabic = arabic /\ Len(w.roman) > 0
  THEN [kind |-> "roman", a |-> 0,
        r |-> (CHOOSE w \in rows : w.arabic = arabic).roman]
  ELSE Result("null")

\* SELECT arabic FROM conversions WHERE roman = $1; rows[0]?.arabic || null.
PgFindByRoman(roman) ==
  IF \E w \in rows : w.roman = roman /\ w.arabic # 0
  THEN [kind |-> "arabic", a |-> (CHOOSE w \in rows : w.roman = roman).arabic,
        r |-> <<>>]
  ELSE Result("null")

\* ------------------------------------------------ IConverterRepository

findByArabic(arabic) ==
  IF backend = "redis" THEN RedisFindByArabic(arabic) ELSE PgFindByArabic(arabic)

findByRoman(roman) ==
  IF backend = "redis" THEN RedisFindByRoman(roman) ELSE PgFindByRoman(roman)

\* A repository method starts: PostgresRepository awaits pool.connect() first,
\* RedisRepository sends its first command.
FirstPc == IF backend = "postgres" THEN "conn" ELSE "exec"

\* ------------------------------------------------------ ConversionService

\* A number argument is [a, k]: the integer a (k = "int"), a + 1/2
\* (k = "half"), or NaN (k = "NaN"). Comparisons with NaN are false.
NumberIsInteger(x) == x.k = "int"
NumberLess(x, n) == x.k # "NaN" /\ x.a < n
NumberGreater(x, n) == x.k # "NaN" /\ (x.a > n \/ (x.k = "half" /\ x.a = n))

\* Mutant of the validation: without the Number.isInteger test.
isInvalidArabicRangeOnly(x) == NumberLess(x, 1) \/ NumberGreater(x, 3999)

\* arabicToRoman: !Number.isInteger(arabic) || arabic < 1 || arabic > 3999.
isInvalidArabic(x) ==
  ~NumberIsInteger(x) \/ NumberLess(x, 1) \/ NumberGreater(x, 3999)

\* Mutants of arabicToRoman: saving again on a cache hit; awaiting the save
\* before returning.
ArabicToRomanSavingOnHit(arabic, cached) ==
  IF cached.kind = "roman" /\ Len(cached.r) > 0
  THEN [ret |-> cached, saves |-> << <<arabic, cached.r>> >>, pc |-> "done"]
  ELSE LET roman == convertArabicToRoman(arabic)
       IN  [ret |-> [kind |-> "roman", a |-> 0, r |-> roman],
            saves |-> << <<arabic, roman>> >>,
            pc |-> "done"]

ArabicToRomanAwaitingSave(arabic, cached) ==
  IF cached.kind = "roman" /\ Len(cached.r) > 0
  THEN [ret |-> cached, saves |-> << >>, pc |-> "done"]
  ELSE LET roman == convertArabicToRoman(arabic)
       IN  [ret |-> [kind |-> "roman", a |-> 0, r |-> roman],
            saves |-> << <<arabic, roman>> >>,
            pc |-> "await"]

\* Mutant of arabicToRoman: nothing is saved on a miss.
ArabicToRomanNotSaving(arabic, cached) ==
  IF cached.kind = "roman" /\ Len(cached.r) > 0
  THEN [ret |-> cached, saves |-> << >>, pc |-> "done"]
  ELSE [ret |-> [kind |-> "roman", a |-> 0, r |-> convertArabicToRoman(arabic)],
        saves |-> << >>,
        pc |-> "done"]

\* arabicToRoman after  cached = await findByArabic(arabic): the value it
\* returns, the saves it issues, and where the request is afterwards.
ArabicToRomanAfterFind(arabic, cached) ==
  IF cached.kind = "roman" /\ Len(cached.r) > 0
  THEN [ret |-> cached, saves |-> << >>, pc |-> "done"]
  ELSE LET roman == convertArabicToRoman(arabic)
       IN  [ret |-> [kind |-> "roman", a |-> 0, r |-> roman],
            saves |-> << <<arabic, roman>> >>,
            pc |-> "done"]

\* romanToArabic after  cached = await findByRoman(normalizedRoman).
RomanToArabicAfterFind(normalizedRoman, cached) ==
  IF cached.kind # "null"
  THEN [ret |-> cached, saves |-> << >>, pc |-> "done"]
  ELSE LET arabic == convertRomanToArabic(normalizedRoman)
       IN  [ret |-> [kind |-> "arabic", a |-> arabic, r |-> <<>>],
            saves |-> << <<arabic, normalizedRoman>> >>,
            pc |-> "done"]

\* Mutant of the .catch handler: the rejected save is issued again.
SaveRejectedRetries(pair) == << pair >>

\* The .catch handler of the detached save: console.error, and the saves it
\* issues in turn (none).
SaveRejected(pair) == << >>

\* Mutant of the detached save: its rejection becomes the caller's result.
SaveRejectionSurfaces(ret, error) == error

\* The save is not awaited and its rejection ends in the .catch handler: what
\* the request has resolved with stays what it is.
SaveRejectionHandled(ret, error) == ret

\* Mutant of the awaited lookup: a rejected read is treated as a miss.
FindRejectedFallsBack(c, error) ==
  IF c.op = "arabicToRoman"
  THEN ArabicToRomanAfterFind(c.a, [kind |-> "null", a |-> 0, r |-> <<>>])
  ELSE RomanToArabicAfterFind(toUpperCase(trim(c.r)), [kind |-> "null", a |-> 0, r |-> <<>>])

\* await repository.findByArabic / findByRoman rejects inside request c: the
\* async method rejects with the same error, nothing after the await runs.
FindRejected(c, error) == [ret |-> error, saves |-> << >>, pc |-> "done"]

Errors == {"ValidationError", "BackendUnavailable", "IntegrityAnomaly"}

IsServiceCall(t) == call[t].op \in {"arabicToRoman", "romanToArabic"}

\* testInverseProperty is inside its arabicToRoman call or inside its
\* romanToArabic call.
IsTestInverse(t) ==
  call[t].op \in {"testInverseProperty.arabicToRoman", "testInverseProperty.romanToArabic"}

\* The repository method that task t runs now.
RepoOp(t) ==
  CASE call[t].op = "arabicToRoman" -> "findByArabic"
    [] call[t].op = "romanToArabic" -> "findByRoman"
    [] call[t].op = "testInverseProperty.arabicToRoman" -> "findByArabic"
    [] call[t].op = "testInverseProperty.romanToArabic" -> "findByRoman"
    [] OTHER -> call[t].op

\* The boolean testInverseProperty returns; with false, the error its catch
\* block caught and dropped (none when the comparison was false).
Boolean(b, caught) ==
  [kind |-> "boolean", a |-> IF b THEN 1 ELSE 0, r |-> caught]

\* Mutant of the catch block of testInverseProperty: the error is rethrown.
TestInverseRethrows(error) == error

\* catch { return false; } of testInverseProperty.
TestInverseCaught(error) == Boolean(FALSE, <<error.kind>>)

\* testInverseProperty after the lookup of one of its two calls settles with
\* x. After arabicToRoman resolves, romanToArabic is called with its result
\* and validates it before its own lookup starts; after romanToArabic
\* resolves, backToArabic === arabic is returned.
TestInverseContinue(t, x) ==
  IF call[t].op = "testInverseProperty.arabicToRoman"
  THEN LET out == IF x.kind \in Errors THEN FindRejected(call[t], x)
                  ELSE ArabicToRomanAfterFind(call[t].a, x)
           spawn == out.saves # << >>
           failed == out.ret.kind \in Errors
           invalid == ~failed /\ ~isValidRomanNumeral(Normalize(out.ret.r))
       IN  /\ res' = [res EXCEPT ![t] =
                        IF failed THEN TestInverseCaught(out.ret)
                        ELSE IF invalid THEN TestInverseCaught(Result("ValidationError"))
                        ELSE @]
           /\ pc' = [pc EXCEPT ![t] = IF failed \/ invalid THEN "done" ELSE FirstPc,
                               ![Bg(t)] = IF spawn THEN FirstPc ELSE @]
           /\ call' = [call EXCEPT
                         ![t] = IF failed \/ invalid THEN @
                                ELSE [op |-> "testInverseProperty.romanToArabic",
                                      a |-> call[t].a, k |-> call[t].k, r |-> out.ret.r],
                         ![Bg(t)] = IF spawn
                                    THEN [op |-> "save", a |-> out.saves[1][1], k |-> "int",
                                          r |-> out.saves[1][2]]
                                    ELSE @]
           /\ issued' = [issued EXCEPT ![t] = @ \o out.saves]
  ELSE LET out == IF x.kind \in Errors THEN FindRejected(call[t], x)
                  ELSE RomanToArabicAfterFind(Normalize(call[t].r), x)
           spawn == out.saves # << >>
       IN  /\ res' = [res EXCEPT ![t] =
                        IF out.ret.kind \in Errors THEN TestInverseCaught(out.ret)
                        ELSE Boolean(out.ret.a = call[t].a, << >>)]
           /\ pc' = [pc EXCEPT ![t] = "done",
                               ![Bg2(t)] = IF spawn THEN FirstPc ELSE @]
           /\ call' = [call EXCEPT
                         ![Bg2(t)] = IF spawn
                                     THEN [op |-> "save", a |-> out.saves[1][1], k |-> "int",
                                           r |-> out.saves[1][2]]
                                     ELSE @]
           /\ issued' = [issued EXCEPT ![t] = @ \o out.saves]

\* The repository method of task t settles with x (a value or a thrown error):
\* a repository call returns it to its caller; a Service request goes on after
\* its await; a detached save ends, its rejection going to the catch handler.
Finish(t, x) ==
  IF t \in Procs /\ IsTestInverse(t)
  THEN TestInverseContinue(t, x)
  ELSE IF t \in Procs /\ IsServiceCall(t)
  THEN LET out == IF x.kind \in Errors THEN FindRejected(call[t], x)
                  ELSE IF call[t].op = "arabicToRoman"
                  THEN ArabicToRomanAfterFind(call[t].a, x)
                  ELSE RomanToArabicAfterFind(Normalize(call[t].r), x)
           spawn == out.saves # << >>
       IN  /\ res' = [res EXCEPT ![t] = out.ret]
           /\ pc' = [pc EXCEPT ![t] = out.pc,
                               ![Bg(t)] = IF spawn THEN FirstPc ELSE @]
           /\ call' = [call EXCEPT ![Bg(t)] =
                         IF spawn
                         THEN [op |-> "save", a |-> out.saves[1][1], k |-> "int",
                               r |-> out.saves[1][2]]
                         ELSE @]
           /\ issued' = [issued EXCEPT ![t] = @ \o out.saves]
  ELSE IF t \notin Procs /\ x.kind \in Errors
       THEN LET again == SaveRejected(<<call[t].a, call[t].r>>)
            IN  /\ res' = [res EXCEPT ![t] = x,
                                     ![Issuer(t)] = SaveRejectionHandled(@, x)]
                /\ pc' = [pc EXCEPT ![t] = IF again # << >> THEN FirstPc ELSE "done"]
                /\ call' = [call EXCEPT ![t] = IF again # << >> THEN @ ELSE NoCall]
                /\ issued' = [issued EXCEPT ![Issuer(t)] = @ \o again]
       ELSE /\ res' = [res EXCEPT ![t] = x]
            /\ pc' = [pc EXCEPT ![t] = "done"]
            /\ call' = [call EXCEPT ![t] = IF IsServiceCall(t) THEN @ ELSE NoCall]
            /\ UNCHANGED issued

\* ----------------------------------------------------------- repository calls

\* A caller invokes repository.save(arabic, roman).
CallSave(t, arabic, roman) ==
  /\ t \in Procs
  /\ pc[t] = "idle"
  /\ pc' = [pc EXCEPT ![t] = FirstPc]
  /\ call' = [call EXCEPT ![t] = [op |-> "save", a |-> arabic, k |-> "int", r |-> roman]]
  /\ UNCHANGED << backend, store, clients, res, scanned, issued, saveLog >>

\* A caller invokes repository.deleteAll().
CallDeleteAll(t) ==
  /\ t \in 1..NumClears
  /\ pc[t] = "idle"
  /\ pc' = [pc EXCEPT ![t] = FirstPc]
  /\ call' = [call EXCEPT ![t] = [op |-> "deleteAll", a |-> 0, k |-> "int", r |-> <<>>]]
  /\ UNCHANGED << backend, store, clients, res, scanned, issued, saveLog >>

\* pool.connect() resolves with a client.
Connect(t) ==
  /\ pc[t] = "conn"
  /\ clients < PoolMax
  /\ clients' = clients + 1
  /\ pc' = [pc EXCEPT ![t] = "exec"]
  /\ UNCHANGED << backend, store, call, res, scanned, issued, saveLog >>

\* pool.connect() rejects: the method throws before its try block.
ConnectFail(t) ==
  /\ pc[t] = "conn"
  /\ Finish(t, Result("BackendUnavailable"))
  /\ UNCHANGED << backend, store, clients, scanned, saveLog >>

\* Mutant of the failure path: the client is not released (no finally).
ExecFailNoRelease(t) ==
  /\ pc[t] \in {"exec", "keysR", "del", "range"}
  /\ scanned' = [scanned EXCEPT ![t] = NoScan]
  /\ IF RepoOp(t) = "isHealthy"
     THEN Finish(t, Boolean(FALSE, <<"BackendUnavailable">>))
     ELSE IF backend = "postgres" /\ RepoOp(t) = "save" /\ ~PgSaveRethrows("ECONNRESET")
     THEN Finish(t, Result("void"))
     ELSE Finish(t, Result("BackendUnavailable"))
  /\ UNCHANGED << backend, store, clients, saveLog >>

\* The command or query in flight rejects with a connection error; the
\* PostgreSQL method releases its client in finally. PostgresRepository.save
\* passes the error through its catch block; isHealthy catches it and
\* returns false.
ExecFail(t) ==
  /\ pc[t] \in {"exec", "keysR", "del", "range"}
  /\ clients' = IF backend = "postgres" THEN clients - 1 ELSE clients
  /\ scanned' = [scanned EXCEPT ![t] = NoScan]
  /\ IF RepoOp(t) = "isHealthy"
     THEN Finish(t, Boolean(FALSE, <<"BackendUnavailable">>))
     ELSE IF backend = "postgres" /\ RepoOp(t) = "save" /\ ~PgSaveRethrows("ECONNRESET")
     THEN Finish(t, Result("void"))
     ELSE Finish(t, Result("BackendUnavailable"))
  /\ UNCHANGED << backend, store, saveLog >>

\* The save reaches the backend: the Lua script runs, or the INSERT does and
\* the client is released.
DoSave(t) ==
  /\ pc[t] = "exec"
  /\ RepoOp(t) = "save"
  /\ IF backend = "redis"
     THEN LET kv == RedisSaveScript([a |-> arabicKV, r |-> romanKV, z |-> sortedSet],
                                    call[t].a, call[t].r)
          IN  /\ arabicKV' = kv.a
              /\ romanKV' = kv.r
              /\ sortedSet' = kv.z
              /\ Finish(t, Result("void"))
              /\ UNCHANGED << rows, clients >>
     ELSE LET ins == PgInsert(rows, call[t].a, call[t].r)
          IN  /\ rows' = ins.rows
              /\ Finish(t, IF ins.code # "" /\ PgSaveRethrows(ins.code)
                           THEN Result("IntegrityAnomaly") ELSE Result("void"))
              /\ clients' = clients - 1
              /\ UNCHANGED << arabicKV, romanKV, sortedSet >>
  /\ UNCHANGED << backend, scanned >>

ExecSave(t) == DoSave(t) /\ UNCHANGED saveLog

\* The same step, with the backend's order of execution recorded.
ExecSaveLogged(t) == DoSave(t) /\ saveLog' = Append(saveLog, <<call[t].a, call[t].r>>)

\* allKeys.length - 1 of RedisRepository.deleteAll.
RedisDeleteAllCount(arabicKeys, romanKeys) ==
  Cardinality(arabicKeys) + Cardinality(romanKeys) + 1 - 1

\* Mutant of the count: every row counted twice.
PgDeleteAllCountTwice(table) == 2 * Cardinality(table)

\* result.rowCount || 0 of PostgresRepository.deleteAll.
PgDeleteAllCount(table) == Cardinality(table)

\* RedisRepository.deleteAll: redis.keys('arabic:*').
ExecKeysArabic(t) ==
  /\ backend = "redis"
  /\ pc[t] = "exec"
  /\ RepoOp(t) = "deleteAll"
  /\ scanned' = [scanned EXCEPT ![t].ak = DOMAIN arabicKV]
  /\ pc' = [pc EXCEPT ![t] = "keysR"]
  /\ UNCHANGED << backend, store, clients, call, res, issued, saveLog >>

\* RedisRepository.deleteAll: redis.keys('roman:*').
ExecKeysRoman(t) ==
  /\ pc[t] = "keysR"
  /\ scanned' = [scanned EXCEPT ![t].rk = DOMAIN romanKV]
  /\ pc' = [pc EXCEPT ![t] = "del"]
  /\ UNCHANGED << backend, store, clients, call, res, issued, saveLog >>

\* Mutant of the DEL: the roman keys left out of allKeys.
ExecDelArabicKeysOnly(t) ==
  /\ pc[t] = "del"
  /\ arabicKV' = [k \in DOMAIN arabicKV \ scanned[t].ak |-> arabicKV[k]]
  /\ sortedSet' = {}
  /\ scanned' = [scanned EXCEPT ![t] = NoScan]
  /\ Finish(t, [kind |-> "count",
                a |-> RedisDeleteAllCount(scanned[t].ak, scanned[t].rk),
                r |-> <<>>])
  /\ UNCHANGED << backend, romanKV, rows, clients, saveLog >>

\* RedisRepository.deleteAll: redis.del(...allKeys), allKeys never being empty.
ExecDel(t) ==
  /\ pc[t] = "del"
  /\ arabicKV' = [k \in DOMAIN arabicKV \ scanned[t].ak |-> arabicKV[k]]
  /\ romanKV' = [k \in DOMAIN romanKV \ scanned[t].rk |-> romanKV[k]]
  /\ sortedSet' = {}
  /\ scanned' = [scanned EXCEPT ![t] = NoScan]
  /\ Finish(t, [kind |-> "count",
                a |-> RedisDeleteAllCount(scanned[t].ak, scanned[t].rk),
                r |-> <<>>])
  /\ UNCHANGED << backend, rows, clients, saveLog >>

\* PostgresRepository.deleteAll: DELETE FROM conversions, then release.
ExecDeleteAll(t) ==
  /\ backend = "postgres"
  /\ pc[t] = "exec"
  /\ RepoOp(t) = "deleteAll"
  /\ rows' = {}
  /\ clients' = clients - 1
  /\ Finish(t, [kind |-> "count", a |-> PgDeleteAllCount(rows), r |-> <<>>])
  /\ UNCHANGED << backend, arabicKV, romanKV, sortedSet, scanned, saveLog >>

\* PostgresRepository.save: the INSERT of a pair whose arabic is not stored
\* raises a unique violation (code 23505) on a constraint other than the one
\* on column roman, the primary key on id; no row is inserted, the error goes
\* through the catch block and the client is released.
ExecSaveAnomaly(t) ==
  /\ backend = "postgres"
  /\ pc[t] = "exec"
  /\ RepoOp(t) = "save"
  /\ \A w \in rows : w.arabic # call[t].a
  /\ clients' = clients - 1
  /\ Finish(t, IF PgSaveRethrows("23505")
               THEN Result("IntegrityAnomaly") ELSE Result("void"))
  /\ UNCHANGED << backend, store, scanned, saveLog >>

\* A caller invokes repository.isHealthy().
CallIsHealthy(t) ==
  /\ t \in Procs
  /\ pc[t] = "idle"
  /\ pc' = [pc EXCEPT ![t] = FirstPc]
  /\ call' = [call EXCEPT ![t] = [op |-> "isHealthy", a |-> 0, k |-> "int", r |-> <<>>]]
  /\ UNCHANGED << backend, store, clients, res, scanned, issued, saveLog >>

\* isHealthy: redis.ping(), or client.query('SELECT 1') and the release,
\* succeeds; true is returned.
ExecPing(t) ==
  /\ pc[t] = "exec"
  /\ RepoOp(t) = "isHealthy"
  /\ clients' = IF backend = "postgres" THEN clients - 1 ELSE clients
  /\ Finish(t, Boolean(TRUE, << >>))
  /\ UNCHANGED << backend, store, scanned, saveLog >>

\* A caller invokes repository.findByArabic(arabic).
CallFindByArabic(t, arabic) ==
  /\ t \in Procs
  /\ pc[t] = "idle"
  /\ pc' = [pc EXCEPT ![t] = FirstPc]
  /\ call' = [call EXCEPT ![t] = [op |-> "findByArabic", a |-> arabic, k |-> "int", r |-> <<>>]]
  /\ UNCHANGED << backend, store, clients, res, scanned, issued, saveLog >>

\* A caller invokes repository.findByRoman(roman).
CallFindByRoman(t, roman) ==
  /\ t \in Procs
  /\ pc[t] = "idle"
  /\ pc' = [pc EXCEPT ![t] = FirstPc]
  /\ call' = [call EXCEPT ![t] = [op |-> "findByRoman", a |-> 0, k |-> "int", r |-> roman]]
  /\ UNCHANGED << backend, store, clients, res, scanned, issued, saveLog >>

\* A caller invokes repository.getAll(limit, offset).
CallGetAll(t, limit, offset) ==
  /\ t \in Procs
  /\ pc[t] = "idle"
  /\ pc' = [pc EXCEPT ![t] = FirstPc]
  /\ call' = [call EXCEPT ![t] = [op |-> "getAll", limit |-> limit, offset |-> offset]]
  /\ UNCHANGED << backend, store, clients, res, scanned, issued, saveLog >>

\* Mutant of the order: descending.
RECURSIVE SortByArabicDescending(_)
SortByArabicDescending(pairs) ==
  IF pairs = {} THEN << >>
  ELSE LET m == CHOOSE x \in pairs : \A y \in pairs : x[1] >= y[1]
       IN  <<m>> \o SortByArabicDescending(pairs \ {m})

\* The order of the sorted set (by score, the arabic value) and of
\* ORDER BY arabic: pairs <<arabic, roman>> as a sequence, ascending.
RECURSIVE SortByArabic(_)
SortByArabic(pairs) ==
  IF pairs = {} THEN << >>
  ELSE LET m == CHOOSE x \in pairs : \A y \in pairs : x[1] <= y[1]
       IN  <<m>> \o SortByArabic(pairs \ {m})

\* Mutant of ZRANGE: the stop index excluded.
ZRangeStopExcluded(members, start, stop) ==
  IF start >= Len(members) \/ start >= stop THEN << >>
  ELSE SubSeq(members, start + 1, IF stop > Len(members) THEN Len(members) ELSE stop)

\* ZRANGE key start stop on the ordered members: 0-based, both ends included,
\* a negative index counting from the end, a stop past the end clipped.
ZRange(members, start, stop) ==
  LET len == Len(members)
      from == IF start >= 0 THEN start ELSE IF start + len < 0 THEN 0 ELSE start + len
      to == IF stop < 0 THEN stop + len ELSE IF stop >= len THEN len - 1 ELSE stop
  IN  IF from > to \/ from >= len THEN << >> ELSE SubSeq(members, from + 1, to + 1)

\* The member of the sorted set for a pair: `${arabic}:${roman}`.
Entry(arabic, roman) == toString(arabic) \o <<":">> \o roman

\* item.split(':'): the parts of item between colons.
RECURSIVE Split(_)
Split(item) ==
  IF \A i \in 1..Len(item) : item[i] # ":" THEN <<item>>
  ELSE LET i == CHOOSE j \in 1..Len(item) :
                  item[j] = ":" /\ \A h \in 1..(j - 1) : item[h] # ":"
       IN  <<SubSeq(item, 1, i - 1)>> \o Split(SubSeq(item, i + 1, Len(item)))

\* const [arabic, roman] = item.split(':'); { arabic: parseInt(arabic, 10), roman }
ParseEntry(item) == <<parseInt(Split(item)[1]), Split(item)[2]>>

\* The data of RedisRepository.getAll: zrange(offset, offset + limit - 1),
\* each member parsed.
RedisGetAllData(zset, limit, offset) ==
  LET members == SortByArabic(zset)
      results == ZRange([i \in 1..Len(members) |-> Entry(members[i][1], members[i][2])],
                        offset, offset + limit - 1)
  IN  [i \in 1..Len(results) |-> ParseEntry(results[i])]

\* The data of PostgresRepository.getAll:
\* SELECT arabic, roman FROM conversions ORDER BY arabic LIMIT $1 OFFSET $2.
PgGetAllData(table, limit, offset) ==
  LET sorted == SortByArabic({ <<w.arabic, w.roman>> : w \in table })
      last == IF offset + limit > Len(sorted) THEN Len(sorted) ELSE offset + limit
  IN  IF offset >= Len(sorted) \/ limit <= 0 THEN << >>
      ELSE SubSeq(sorted, offset + 1, last)

\* getAll, first round trip: ZCARD conversions:all, or SELECT COUNT(*).
ExecCount(t) ==
  /\ pc[t] = "exec"
  /\ RepoOp(t) = "getAll"
  /\ res' = [res EXCEPT ![t] =
               [kind |-> "counted",
                a |-> IF backend = "redis" THEN Cardinality(sortedSet)
                      ELSE Cardinality(rows),
                r |-> <<>>]]
  /\ pc' = [pc EXCEPT ![t] = "range"]
  /\ UNCHANGED << backend, store, clients, call, scanned, issued, saveLog >>

\* getAll, second round trip: ZRANGE, or the SELECT and the release; the
\* page is returned with the total read before and the arguments.
ExecRange(t) ==
  /\ pc[t] = "range"
  /\ clients' = IF backend = "postgres" THEN clients - 1 ELSE clients
  /\ Finish(t, [kind |-> "page",
                data |-> IF backend = "redis"
                         THEN RedisGetAllData(sortedSet, call[t].limit, call[t].offset)
                         ELSE PgGetAllData(rows, call[t].limit, call[t].offset),
                total |-> res[t].a,
                limit |-> call[t].limit,
                offset |-> call[t].offset])
  /\ UNCHANGED << backend, store, scanned, saveLog >>

\* The caller of a repository method has its result; the slot is free for its
\* next call.
Return(t) ==
  /\ t \in Procs
  /\ pc[t] = "done"
  /\ pc' = [pc EXCEPT ![t] = "idle"]
  /\ res' = [res EXCEPT ![t] = NoRes]
  /\ call' = [call EXCEPT ![t] = NoCall]
  /\ UNCHANGED << backend, store, clients, scanned, issued, saveLog >>

\* The caller of a sequential run.
Caller == CHOOSE p \in Procs : \A q \in Procs : p <= q

\* The arguments of getAll.
Limits == 1..MaxArabic
Offsets == 0..MaxArabic

\* ------------------------------------------------------------ Service calls

\* The arabic inputs and the roman inputs of Service requests.
ArabicInputs ==
  { [a |-> 0, k |-> "int"], [a |-> 4, k |-> "int"], [a |-> 5, k |-> "int"],
    [a |-> 4000, k |-> "int"], [a |-> 4, k |-> "half"], [a |-> 0, k |-> "NaN"] }
RomanInputs ==
  { <<"V">>, <<"I","V","I">>, <<" ","i","v">>, <<"I","I","I","I">>, << >>,
    <<"M","M","M","C","M","M">> }

\* A request invokes service.arabicToRoman(arabic): validation, then the cache
\* lookup starts.
CallArabicToRoman(p, arabic) ==
  /\ p \in 1..NumRequests
  /\ pc[p] = "idle"
  /\ pc[Bg(p)] = "idle"
  /\ call' = [call EXCEPT ![p] = [op |-> "arabicToRoman", a |-> arabic.a,
                                   k |-> arabic.k, r |-> <<>>]]
  /\ IF isInvalidArabic(arabic)
     THEN /\ pc' = [pc EXCEPT ![p] = "done"]
          /\ res' = [res EXCEPT ![p] = Result("ValidationError")]
     ELSE /\ pc' = [pc EXCEPT ![p] = FirstPc]
          /\ UNCHANGED res
  /\ UNCHANGED << backend, store, clients, scanned, issued, saveLog >>

\* A request invokes service.romanToArabic(roman).
CallRomanToArabic(p, roman) ==
  /\ p \in 1..NumRequests
  /\ pc[p] = "idle"
  /\ pc[Bg(p)] = "idle"
  /\ call' = [call EXCEPT ![p] = [op |-> "romanToArabic", a |-> 0, k |-> "int", r |-> roman]]
  /\ IF ~isValidRomanNumeral(Normalize(roman))
     THEN /\ pc' = [pc EXCEPT ![p] = "done"]
          /\ res' = [res EXCEPT ![p] = Result("ValidationError")]
     ELSE /\ pc' = [pc EXCEPT ![p] = FirstPc]
          /\ UNCHANGED res
  /\ UNCHANGED << backend, store, clients, scanned, issued, saveLog >>

\* A request invokes service.testInverseProperty(arabic): arabicToRoman
\* validates, then its cache lookup starts.
CallTestInverseProperty(p, arabic) ==
  /\ p \in 1..NumRequests
  /\ pc[p] = "idle"
  /\ pc[Bg(p)] = "idle"
  /\ pc[Bg2(p)] = "idle"
  /\ call' = [call EXCEPT ![p] = [op |-> "testInverseProperty.arabicToRoman",
                                   a |-> arabic.a, k |-> arabic.k, r |-> <<>>]]
  /\ IF isInvalidArabic(arabic)
     THEN /\ pc' = [pc EXCEPT ![p] = "done"]
          /\ res' = [res EXCEPT ![p] = TestInverseCaught(Result("ValidationError"))]
     ELSE /\ pc' = [pc EXCEPT ![p] = FirstPc]
          /\ UNCHANGED res
  /\ UNCHANGED << backend, store, clients, scanned, issued, saveLog >>

\* The cache lookup of a request reaches the backend (redis.get, or the SELECT
\* and the release), and the request goes on with what it read.
ExecFind(t) ==
  /\ pc[t] = "exec"
  /\ RepoOp(t) \in {"findByArabic", "findByRoman"}
  /\ clients' = IF backend = "postgres" THEN clients - 1 ELSE clients
  /\ Finish(t, IF RepoOp(t) = "findByArabic"
               THEN findByArabic(call[t].a)
               ELSE findByRoman(Normalize(call[t].r)))
  /\ UNCHANGED << backend, store, scanned, saveLog >>

\* ------------------------------------------------- conversions on their own

\* The largest number arabicToRoman accepts.
MaxValue == 3999

\* Characters of the strings given to romanToArabic: the seven numerals, a
\* lower-case numeral, a blank, and a letter that is no numeral.
Alphabet == {"I", "V", "X", "L", "C", "D", "M", "i", " ", "A"}

Strings(n) == UNION { [1..k -> Alphabet] : k \in 0..n }

\* Every string up to MaxLen, and longer numerals.
RomanStrings ==
  Strings(MaxLen) \cup { <<"M","M","X","X","I","I","I">>,
                         <<"M","M","M","C","M","X","C","I","X">>,
                         <<"M","M","M","C","M","M">> }

\* One conversion is to be made on an empty cache: of a number in
\* 1..MaxValue to a numeral and back, or of a string to a number.
InitConvert ==
  /\ backend = "redis"
  /\ arabicKV = << >>
  /\ romanKV = << >>
  /\ sortedSet = {}
  /\ rows = {}
  /\ clients = 0
  /\ pc = [t \in Tasks |-> "idle"]
  /\ \/ \E n \in 1..MaxValue :
          call = [t \in Tasks |-> IF t = 1
                                  THEN [op |-> "arabicToRoman", a |-> n, k |-> "int", r |-> <<>>]
                                  ELSE NoCall]
     \/ \E s \in RomanStrings :
          call = [t \in Tasks |-> IF t = 1
                                  THEN [op |-> "romanToArabic", a |-> 0, k |-> "int", r |-> s]
                                  ELSE NoCall]
  /\ res = [t \in Tasks |-> NoRes]
  /\ scanned = [t \in Tasks |-> NoScan]
  /\ issued = [p \in Procs |-> << >>]
  /\ saveLog = << >>

\* this.convertArabicToRoman(arabic) of arabicToRoman.
ApplyConvertArabicToRoman(t) ==
  /\ pc[t] = "idle"
  /\ call[t].op = "arabicToRoman"
  /\ res' = [res EXCEPT ![t] = [kind |-> "roman", a |-> 0,
                                r |-> convertArabicToRoman(call[t].a)]]
  /\ pc' = [pc EXCEPT ![t] = "scan"]
  /\ UNCHANGED << backend, store, clients, call, scanned, issued, saveLog >>

\* roman.trim().toUpperCase() and this.isValidRomanNumeral(normalizedRoman) of
\* romanToArabic.
ApplyIsValidRomanNumeral(t) ==
  /\ pc[t] = "idle"
  /\ call[t].op = "romanToArabic"
  /\ IF isValidRomanNumeral(Normalize(call[t].r))
     THEN /\ pc' = [pc EXCEPT ![t] = "scan"]
          /\ UNCHANGED res
     ELSE /\ pc' = [pc EXCEPT ![t] = "done"]
          /\ res' = [res EXCEPT ![t] = Result("ValidationError")]
  /\ UNCHANGED << backend, store, clients, call, scanned, issued, saveLog >>

\* this.convertRomanToArabic(...): of the numeral just computed, or of the
\* normalized string just validated.
ApplyConvertRomanToArabic(t) ==
  /\ pc[t] = "scan"
  /\ LET roman == IF call[t].op = "arabicToRoman" THEN res[t].r
                  ELSE Normalize(call[t].r)
         arabic == convertRomanToArabic(roman)
     IN  res' = [res EXCEPT ![t] = IF arabic = -1 THEN Result("ValidationError")
                                   ELSE [kind |-> "arabic", a |-> arabic, r |-> roman]]
  /\ pc' = [pc EXCEPT ![t] = "done"]
  /\ UNCHANGED << backend, store, clients, call, scanned, issued, saveLog >>

\* ------------------------------------------------------------ specifications

\* Single conversions, each on its own.
NextConvert ==
  \/ \E t \in Tasks : ApplyConvertArabicToRoman(t)
  \/ \E t \in Tasks : ApplyIsValidRomanNumeral(t)
  \/ \E t \in Tasks : ApplyConvertRomanToArabic(t)

SpecConvert == InitConvert /\ [][NextConvert]_vars

SaveCalls == \E t \in Procs, a \in ArabicVals, r \in RomanVals : CallSave(t, a, r)

\* Concurrent saves on an available backend.
NextSaves ==
  \/ SaveCalls
  \/ \E t \in Tasks : Connect(t)
  \/ \E t \in Tasks : ExecSaveLogged(t)

SpecSaves == Init /\ [][NextSaves]_vars

\* Concurrent saves and deleteAlls against a backend that may fail.
Next ==
  \/ SaveCalls
  \/ \E t \in Procs : CallDeleteAll(t)
  \/ \E t \in Tasks : Connect(t)
  \/ \E t \in Tasks : ConnectFail(t)
  \/ \E t \in Tasks : ExecFail(t)
  \/ \E t \in Tasks : ExecSave(t)
  \/ \E t \in Tasks : ExecKeysArabic(t)
  \/ \E t \in Tasks : ExecKeysRoman(t)
  \/ \E t \in Tasks : ExecDel(t)
  \/ \E t \in Tasks : ExecDeleteAll(t)

Spec == Init /\ [][Next]_vars

\* Concurrent Service requests with their detached saves.
NextService ==
  \/ \E p \in Procs, n \in ArabicInputs : CallArabicToRoman(p, n)
  \/ \E p \in Procs, s \in RomanInputs : CallRomanToArabic(p, s)
  \/ \E t \in Tasks : Connect(t)
  \/ \E t \in Tasks : ConnectFail(t)
  \/ \E t \in Tasks : ExecFail(t)
  \/ \E t \in Tasks : ExecFind(t)
  \/ \E t \in Tasks : ExecSave(t)

SpecService == Init /\ [][NextService]_vars

\* The romanToArabic requests that run next to testInverseProperty: they
\* store (5, "IVI") and (4, "IV").
SeedInputs == { <<"I","V","I">>, <<" ","i","v">> }

\* The numbers given to testInverseProperty: 0, 4, 5 and 4.5.
TestInputs ==
  { [a |-> 0, k |-> "int"], [a |-> 4, k |-> "int"], [a |-> 5, k |-> "int"],
    [a |-> 4, k |-> "half"] }

\* testInverseProperty next to romanToArabic requests that fill the cache.
NextInverse ==
  \/ \E p \in Procs, n \in TestInputs : CallTestInverseProperty(p, n)
  \/ \E p \in Procs, s \in SeedInputs : CallRomanToArabic(p, s)
  \/ \E t \in Tasks : Connect(t)
  \/ \E t \in Tasks : ConnectFail(t)
  \/ \E t \in Tasks : ExecFail(t)
  \/ \E t \in Tasks : ExecFind(t)
  \/ \E t \in Tasks : ExecSave(t)

SpecInverse == Init /\ [][NextInverse]_vars

\* Concurrent requests of the three Service operations with their detached
\* saves, the backend staying available.
NextOps ==
  \/ \E p \in Procs, n \in TestInputs : CallArabicToRoman(p, n)
  \/ \E p \in Procs, s \in SeedInputs : CallRomanToArabic(p, s)
  \/ \E p \in Procs, n \in TestInputs : CallTestInverseProperty(p, n)
  \/ \E t \in Tasks : Connect(t)
  \/ \E t \in Tasks : ExecFind(t)
  \/ \E t \in Tasks : ExecSave(t)

SpecOps == Init /\ [][NextOps]_vars

\* Concurrent arabicToRoman and romanToArabic requests with their detached
\* saves on a backend that stays available: every connection asked for is
\* obtained and every command sent is executed.
NextLive ==
  \/ \E p \in Procs, n \in TestInputs : CallArabicToRoman(p, n)
  \/ \E p \in Procs, s \in SeedInputs \cup {<<"V">>} : CallRomanToArabic(p, s)
  \/ \E t \in Tasks : Connect(t)
  \/ \E t \in Tasks : ExecFind(t)
  \/ \E t \in Tasks : ExecSave(t)

SpecLive ==
  /\ Init
  /\ [][NextLive]_vars
  /\ \A t \in Tasks : WF_vars(Connect(t))
  /\ \A t \in Tasks : WF_vars(ExecFind(t))
  /\ \A t \in Tasks : WF_vars(ExecSave(t))

\* Concurrent arabicToRoman requests, all for the same number, on an empty
\* cache and an available backend.
NextSame ==
  \/ \E p \in Procs, n \in { x \in TestInputs : ~isInvalidArabic(x) } :
        /\ \A q \in Procs : call[q].op = "none" \/ call[q].a = n.a
        /\ CallArabicToRoman(p, n)
  \/ \E t \in Tasks : Connect(t)
  \/ \E t \in Tasks : ExecFind(t)
  \/ \E t \in Tasks : ExecSave(t)

SpecSame == Init /\ [][NextSame]_vars

\* One caller making its repository calls one after the other.
NextSequential ==
  \/ \E a \in ArabicVals, r \in RomanVals : CallSave(Caller, a, r)
  \/ CallDeleteAll(Caller)
  \/ \E limit \in Limits, offset \in Offsets : CallGetAll(Caller, limit, offset)
  \/ \E t \in Tasks : Connect(t)
  \/ \E t \in Tasks : ExecSave(t)
  \/ \E t \in Tasks : ExecKeysArabic(t)
  \/ \E t \in Tasks : ExecKeysRoman(t)
  \/ \E t \in Tasks : ExecDel(t)
  \/ \E t \in Tasks : ExecDeleteAll(t)
  \/ \E t \in Tasks : ExecCount(t)
  \/ \E t \in Tasks : ExecRange(t)
  \/ \E t \in Tasks : Return(t)

SpecSequential == Init /\ [][NextSequential]_vars

\* The callers that save while another one reads.
Writers == { p \in Procs : p # Caller /\ p <= Caller + NumWriters }

\* One caller saving and listing, one call after the other, getAll being
\* called directly with any limit from 0.
NextPages ==
  \/ \E a \in ArabicVals, r \in RomanVals : CallSave(Caller, a, r)
  \/ \E limit \in 0..MaxArabic, offset \in Offsets : CallGetAll(Caller, limit, offset)
  \/ \E t \in Tasks : Connect(t)
  \/ \E t \in Tasks : ExecSave(t)
  \/ \E t \in Tasks : ExecCount(t)
  \/ \E t \in Tasks : ExecRange(t)
  \/ \E t \in Tasks : Return(t)

SpecPages == Init /\ [][NextPages]_vars

\* A getAll racing with concurrent saves, each writer saving again and again.
NextReads ==
  \/ \E t \in Writers, a \in ArabicVals, r \in RomanVals : CallSave(t, a, r)
  \/ \E limit \in {1, MaxArabic}, offset \in {0, 1} : CallGetAll(Caller, limit, offset)
  \/ \E t \in Tasks : Connect(t)
  \/ \E t \in Tasks : ExecSave(t)
  \/ \E t \in Tasks : ExecCount(t)
  \/ \E t \in Tasks : ExecRange(t)
  \/ \E t \in Writers : Return(t)

SpecReads == Init /\ [][NextReads]_vars

\* A PostgresRepository whose methods are called concurrently: saves by the
\* writers, any of the other methods by another caller, while connections,
\* queries and inserts may fail.
InitPool == Init /\ backend = "postgres"

NextPool ==
  \/ \E t \in Writers, a \in ArabicVals, r \in RomanVals : CallSave(t, a, r)
  \/ \E a \in ArabicVals : CallFindByArabic(Caller, a)
  \/ \E r \in RomanVals : CallFindByRoman(Caller, r)
  \/ \E limit \in {1, MaxArabic}, offset \in {0, 1} : CallGetAll(Caller, limit, offset)
  \/ CallDeleteAll(Caller)
  \/ CallIsHealthy(Caller)
  \/ \E t \in Tasks : Connect(t)
  \/ \E t \in Tasks : ConnectFail(t)
  \/ \E t \in Tasks : ExecFail(t)
  \/ \E t \in Tasks : ExecSave(t)
  \/ \E t \in Tasks : ExecSaveAnomaly(t)
  \/ \E t \in Tasks : ExecFind(t)
  \/ \E t \in Tasks : ExecCount(t)
  \/ \E t \in Tasks : ExecRange(t)
  \/ \E t \in Tasks : ExecDeleteAll(t)
  \/ \E t \in Tasks : ExecPing(t)

SpecPool == InitPool /\ [][NextPool]_vars

\* The same sequential calls applied to a RedisRepository (keys and sorted
\* set) and to a PostgresRepository (rows), both empty at first: each step is
\* one call run to its end on both, the call kept in call[1], its result on
\* Redis in res[1] and its result on Postgres in res[2].
InitBoth ==
  /\ backend = "both"
  /\ arabicKV = << >>
  /\ romanKV = << >>
  /\ sortedSet = {}
  /\ rows = {}
  /\ clients = 0
  /\ pc = [t \in Tasks |-> "idle"]
  /\ call = [t \in Tasks |-> NoCall]
  /\ res = [t \in Tasks |-> NoRes]
  /\ scanned = [t \in Tasks |-> NoScan]
  /\ issued = [p \in Procs |-> << >>]
  /\ saveLog = << >>

BothSave(arabic, roman) ==
  LET kv == RedisSaveScript([a |-> arabicKV, r |-> romanKV, z |-> sortedSet],
                            arabic, roman)
      ins == PgInsert(rows, arabic, roman)
  IN  /\ arabicKV' = kv.a
      /\ romanKV' = kv.r
      /\ sortedSet' = kv.z
      /\ rows' = ins.rows
      /\ res' = [res EXCEPT ![1] = Result("void"),
                            ![2] = IF ins.code # "" /\ PgSaveRethrows(ins.code)
                                   THEN Result("IntegrityAnomaly") ELSE Result("void")]
      /\ call' = [call EXCEPT ![1] = [op |-> "save", a |-> arabic, k |-> "int", r |-> roman]]
      /\ UNCHANGED << backend, clients, pc, scanned, issued, saveLog >>

BothFindByArabic(arabic) ==
  /\ res' = [res EXCEPT ![1] = RedisFindByArabic(arabic), ![2] = PgFindByArabic(arabic)]
  /\ call' = [call EXCEPT ![1] = [op |-> "findByArabic", a |-> arabic, k |-> "int", r |-> <<>>]]
  /\ UNCHANGED << backend, store, clients, pc, scanned, issued, saveLog >>

BothFindByRoman(roman) ==
  /\ res' = [res EXCEPT ![1] = RedisFindByRoman(roman), ![2] = PgFindByRoman(roman)]
  /\ call' = [call EXCEPT ![1] = [op |-> "findByRoman", a |-> 0, k |-> "int", r |-> roman]]
  /\ UNCHANGED << backend, store, clients, pc, scanned, issued, saveLog >>

BothGetAll(limit, offset) ==
  /\ res' = [res EXCEPT
               ![1] = [kind |-> "page",
                       data |-> RedisGetAllData(sortedSet, limit, offset),
                       total |-> Cardinality(sortedSet),
                       limit |-> limit, offset |-> offset],
               ![2] = [kind |-> "page",
                       data |-> PgGetAllData(rows, limit, offset),
                       total |-> Cardinality(rows),
                       limit |-> limit, offset |-> offset]]
  /\ call' = [call EXCEPT ![1] = [op |-> "getAll", limit |-> limit, offset |-> offset]]
  /\ UNCHANGED << backend, store, clients, pc, scanned, issued, saveLog >>

BothDeleteAll ==
  /\ arabicKV' = << >>
  /\ romanKV' = << >>
  /\ sortedSet' = {}
  /\ rows' = {}
  /\ res' = [res EXCEPT
               ![1] = [kind |-> "count",
                       a |-> RedisDeleteAllCount(DOMAIN arabicKV, DOMAIN romanKV),
                       r |-> <<>>],
               ![2] = [kind |-> "count", a |-> PgDeleteAllCount(rows), r |-> <<>>]]
  /\ call' = [call EXCEPT ![1] = [op |-> "deleteAll", a |-> 0, k |-> "int", r |-> <<>>]]
  /\ UNCHANGED << backend, clients, pc, scanned, issued, saveLog >>

\* The keys looked up: those that are saved and one that never is.
FindKeys == 1..(MaxArabic + 1)

NextBoth ==
  \/ \E a \in ArabicVals, r \in RomanVals : BothSave(a, r)
  \/ \E a \in FindKeys : BothFindByArabic(a)
  \/ \E a \in FindKeys : BothFindByRoman(convertArabicToRoman(a))
  \/ \E limit \in Limits, offset \in Offsets : BothGetAll(limit, offset)
  \/ BothDeleteAll

SpecBoth == InitBoth /\ [][NextBoth]_vars

\* One caller saving and probing, one call after the other, against a backend
\* whose connections, commands and inserts may fail.
NextFaults ==
  \/ \E a \in ArabicVals, r \in RomanVals : CallSave(Caller, a, r)
  \/ CallIsHealthy(Caller)
  \/ \E t \in Tasks : Connect(t)
  \/ \E t \in Tasks : ConnectFail(t)
  \/ \E t \in Tasks : ExecFail(t)
  \/ \E t \in Tasks : ExecSave(t)
  \/ \E t \in Tasks : ExecSaveAnomaly(t)
  \/ \E t \in Tasks : ExecPing(t)
  \/ \E t \in Tasks : Return(t)

SpecFaults == Init /\ [][NextFaults]_vars

\* ------------------------------------------------------------------ views

\* The records each index of the active backend holds, as pairs <<arabic, roman>>:
\* by arabic key, by roman key, and in the listing.
ArabicSide ==
  IF backend = "redis" THEN { <<a, arabicKV[a]>> : a \in DOMAIN arabicKV }
  ELSE { <<w.arabic, w.roman>> : w \in rows }

RomanSide ==
  IF backend = "redis" THEN { <<parseInt(romanKV[r]), r>> : r \in DOMAIN romanKV }
  ELSE { <<w.arabic, w.roman>> : w \in rows }

Listing ==
  IF backend = "redis" THEN sortedSet ELSE { <<w.arabic, w.roman>> : w \in rows }

Records == ArabicSide \cup RomanSide \cup Listing

\* total of getAll: ZCARD conversions:all, or SELECT COUNT(*).
getAllTotal ==
  IF backend = "redis" THEN Cardinality(sortedSet) ELSE Cardinality(rows)

Range(seq) == { seq[i] : i \in DOMAIN seq }

Conflicts(x, y) == x[1] = y[1] \/ x[2] = y[2]

\* What first-write-wins keeps of a sequence of saves.
RECURSIVE FirstWriteWins(_)
FirstWriteWins(log) ==
  IF log = << >> THEN {}
  ELSE LET before == FirstWriteWins(SubSeq(log, 1, Len(log) - 1))
           p == log[Len(log)]
       IN  IF \E q \in before : Conflicts(p, q) THEN before ELSE before \cup {p}

RomanResult(r) == [kind |-> "roman", a |-> 0, r |-> r]
ArabicResult(a) == [kind |-> "arabic", a |-> a, r |-> <<>>]

\* Task t's save is executed by the backend in this step.
SaveExecuted(t) ==
  /\ pc[t] = "exec" /\ RepoOp(t) = "save"
  /\ pc'[t] # "exec" /\ Len(saveLog') = Len(saveLog) + 1

\* A deleteAll removes what it has enumerated in this step.
ClearStep ==
  \E t \in Tasks : call[t].op = "deleteAll" /\ pc[t] # "done"
                   /\ pc'[t] = "done" /\ res'[t].kind = "count"

\* What the cache lookup of Service request p reads in the current state.
Lookup(p) ==
  IF call[p].op = "arabicToRoman" THEN findByArabic(call[p].a)
  ELSE findByRoman(Normalize(call[p].r))

\* The lookup of request p is answered in this step (not failed), with a
\* stored value or with none.
LookupAnswered(p) ==
  /\ pc[p] = "exec" /\ IsServiceCall(p)
  /\ pc'[p] # "exec" /\ res'[p].kind \notin Errors

HitStep(p) == LookupAnswered(p) /\ Lookup(p).kind # "null"
MissStep(p) == LookupAnswered(p) /\ Lookup(p).kind = "null"

\* The pair a request that misses is to save, and the value it is to return.
ExpectedSave(p) ==
  IF call[p].op = "arabicToRoman"
  THEN <<call[p].a, convertArabicToRoman(call[p].a)>>
  ELSE <<convertRomanToArabic(toUpperCase(trim(call[p].r))), toUpperCase(trim(call[p].r))>>

ExpectedReturn(p) ==
  IF call[p].op = "arabicToRoman" THEN RomanResult(ExpectedSave(p)[2])
  ELSE ArabicResult(ExpectedSave(p)[1])

Pending(t) == pc[t] \in {"conn", "exec"}

\* ----------------------------------------------------------------- claims

\* C1: under any interleaving of concurrent saves of arbitrary pairs, on either
\* backend, no two stored records share an arabic value and no two share a
\* roman value, in any of the indexes.
C1_Bijection ==
  \A x \in Records, y \in Records : x = y \/ (x[1] # y[1] /\ x[2] # y[2])

\* C1 witness: conflicting saves have been executed and two records are stored.
C1_Witness ==
  /\ \E i \in DOMAIN saveLog, j \in DOMAIN saveLog :
       saveLog[i] # saveLog[j] /\ Conflicts(saveLog[i], saveLog[j])
  /\ Cardinality(Records) = 2

\* C2: a save executed while a record with its arabic or with its roman exists
\* (possibly two different records) leaves every index unchanged and returns
\* without an error; so a repeated save changes nothing.
C2_ConflictingSaveIsNoOp ==
  [][\A t \in Tasks :
       (SaveExecuted(t) /\ \E x \in Records : Conflicts(x, <<call[t].a, call[t].r>>))
       => (store' = store /\ pc'[t] = "done" /\ res'[t] = Result("void"))]_vars

\* C2 witness: a save that conflicts with two different stored records, one on
\* its arabic and one on its roman, has been executed and has returned.
C2_Witness ==
  /\ \E j \in DOMAIN saveLog : \E x \in Records, y \in Records :
       /\ x # y
       /\ x[1] = saveLog[j][1] /\ y[2] = saveLog[j][2]
       /\ saveLog[j] \notin Records
  /\ \A t \in Procs : pc[t] = "done" /\ res[t] = Result("void")

\* C3: once any number of saves of one same pair (a, r) have been executed on
\* an empty store, exactly one record is stored: findByArabic(a) is r,
\* findByRoman(r) is a, and the listing total is 1.
C3_SamePairStoredOnce ==
  (Len(saveLog) >= 1 /\ \A i \in DOMAIN saveLog : saveLog[i] = saveLog[1])
  => /\ findByArabic(saveLog[1][1]) = RomanResult(saveLog[1][2])
     /\ findByRoman(saveLog[1][2]) = ArabicResult(saveLog[1][1])
     /\ getAllTotal = 1
     /\ Listing = {saveLog[1]}

\* C3 witness: every request slot has saved the same pair.
C3_Witness ==
  /\ Len(saveLog) = NumProcs
  /\ \A i \in DOMAIN saveLog : saveLog[i] = saveLog[1]
  /\ getAllTotal = 1

\* C4: when the executed saves are of pairs that share no arabic and no roman
\* value (a pair possibly saved several times), every one of the pairs is
\* stored, resolvable in both directions, and nothing else is stored.
C4_DistinctPairsAllStored ==
  (\A i \in DOMAIN saveLog, j \in DOMAIN saveLog :
       saveLog[i] = saveLog[j] \/ ~Conflicts(saveLog[i], saveLog[j]))
  => /\ Listing = Range(saveLog)
     /\ getAllTotal = Cardinality(Range(saveLog))
     /\ \A x \in Range(saveLog) :
          /\ findByArabic(x[1]) = RomanResult(x[2])
          /\ findByRoman(x[2]) = ArabicResult(x[1])
     /\ ArabicSide = Range(saveLog)
     /\ RomanSide = Range(saveLog)

\* C4 witness: MaxArabic pairwise distinct pairs have been saved, one of them
\* more than once.
C4_Witness ==
  /\ \A i \in DOMAIN saveLog, j \in DOMAIN saveLog :
       saveLog[i] = saveLog[j] \/ ~Conflicts(saveLog[i], saveLog[j])
  /\ Cardinality(Range(saveLog)) = MaxArabic
  /\ Len(saveLog) > MaxArabic

\* C5: every index holds exactly what first-write-wins keeps of the saves in
\* the order the backend executed them: of two saves that conflict, the one
\* executed first is the one stored, and the rejected one is in no index.
C5_FirstExecutedWins ==
  /\ ArabicSide = FirstWriteWins(saveLog)
  /\ RomanSide = FirstWriteWins(saveLog)
  /\ Listing = FirstWriteWins(saveLog)

\* C5 witness: two saves with one arabic and different romans were executed;
\* the first is stored and the second left neither a roman key nor an entry.
C5_Witness ==
  \E i \in DOMAIN saveLog, j \in DOMAIN saveLog :
    /\ i < j
    /\ saveLog[i][1] = saveLog[j][1] /\ saveLog[i][2] # saveLog[j][2]
    /\ findByArabic(saveLog[i][1]) = RomanResult(saveLog[i][2])
    /\ findByRoman(saveLog[j][2]).kind = "null"
    /\ saveLog[j] \notin Listing

\* C6: on Redis, whenever no deleteAll is in progress, the arabic keys, the
\* roman keys and the sorted index describe the same conversions.
C6_NoPartialRecord ==
  (backend = "redis" /\ \A t \in Tasks : call[t].op # "deleteAll")
  => (ArabicSide = RomanSide /\ RomanSide = Listing)

\* C7: a value a find returns for a key stays the value every later find
\* returns for it, unless a deleteAll removes it; no save changes or removes it.
C7_NeverUpdated ==
  [][\/ ClearStep
     \/ store' = store /\ backend' = backend
     \/ /\ \A a \in ArabicVals :
             findByArabic(a).kind # "null" => findByArabic(a)' = findByArabic(a)
        /\ \A r \in RomanVals :
             findByRoman(r).kind # "null" => findByRoman(r)' = findByRoman(r)]_vars

\* C7 witness: no deleteAll was called, every other slot has saved, and one
\* record is stored: a save on a taken key has been executed.
C7_Witness ==
  /\ \A t \in 1..NumClears : pc[t] = "idle"
  /\ \A t \in Procs \ (1..NumClears) : pc[t] = "done" /\ res[t] = Result("void")
  /\ Cardinality(ArabicSide) = 1
  /\ Cardinality(RomanSide) = 1

\* C8: when the cache lookup of a Service request finds a value, the request
\* returns that value, issues no save, and the step changes no stored record.
C8_HitReturnsCached ==
  [][\A p \in Procs :
       HitStep(p) => /\ pc'[p] = "done"
                     /\ res'[p] = Lookup(p)
                     /\ issued'[p] = << >>
                     /\ pc'[Bg(p)] = "idle"
                     /\ store' = store]_vars

\* C8 witness: a request has returned a value without issuing a save.
C8_Witness ==
  \E p \in Procs : /\ pc[p] = "done"
                   /\ res[p].kind \in {"roman", "arabic"}
                   /\ issued[p] = << >>

\* C9: a request whose lookup finds nothing issues exactly one save, of
\* (n, computed roman) or of (computed arabic, trimmed upper-cased input); and
\* once a request has issued its save it never issues another, whether the
\* save succeeds or fails.
C9_MissSavesOnce ==
  [][\A p \in Procs :
       /\ MissStep(p) => /\ issued'[p] = << ExpectedSave(p) >>
                         /\ Pending(Bg(p))'
                         /\ call'[Bg(p)] = [op |-> "save", a |-> ExpectedSave(p)[1],
                                            k |-> "int", r |-> ExpectedSave(p)[2]]
       /\ issued[p] # << >> => issued'[p] = issued[p]]_vars

\* C9 witness: the save of a request that missed has failed, and it is the one
\* save the request has issued.
C9_Witness ==
  \E p \in Procs : /\ Len(issued[p]) = 1
                   /\ pc[Bg(p)] = "done"
                   /\ res[Bg(p)].kind = "BackendUnavailable"

\* C10: a request whose lookup finds nothing returns the computed value in the
\* same step that issues the save, the save still pending; and a returned
\* value never changes, whatever the save does afterwards.
C10_ReturnsWithoutWaiting ==
  [][\A p \in Procs :
       /\ MissStep(p) => /\ pc'[p] = "done"
                         /\ res'[p] = ExpectedReturn(p)
                         /\ Pending(Bg(p))'
       /\ pc[p] = "done" => (pc'[p] = "done" /\ res'[p] = res[p])]_vars

\* C10 witness: a request has its value while its save is still pending.
C10_Witness ==
  \E p \in Procs : /\ pc[p] = "done"
                   /\ res[p].kind \in {"roman", "arabic"}
                   /\ Pending(Bg(p))

\* C11: when the detached save of a request fails, the request keeps the
\* converted value it has resolved with, no error replaces it, and the save is
\* not issued again.
C11_SaveFailureOnlyLogged ==
  [][\A p \in Procs :
       (Pending(Bg(p)) /\ res'[Bg(p)].kind \in Errors)
       => /\ pc[p] = "done" /\ pc'[p] = "done"
          /\ res[p] = ExpectedReturn(p)
          /\ res'[p] = ExpectedReturn(p)
          /\ issued'[p] = issued[p]
          /\ pc'[Bg(p)] = "done"
          /\ call'[Bg(p)] = NoCall]_vars

\* C11 witness: a romanToArabic request holds its computed value although its
\* save was rejected by the backend.
C11_Witness ==
  \E p \in Procs : /\ call[p].op = "romanToArabic"
                   /\ pc[p] = "done"
                   /\ res[p] = ExpectedReturn(p)
                   /\ res[Bg(p)].kind \in Errors
                   /\ call[Bg(p)] = NoCall

\* C12: a request with an invalid argument (a number that is not an integer,
\* NaN, below 1 or above 3999; a string whose normal form is empty or fails
\* the validator) is rejected with an error in the step that makes it, and
\* neither then nor later is a find or a save invoked for it.
C12_InvalidInputRejectedFirst ==
  [][\A p \in Procs :
       /\ (pc[p] = "idle" /\ pc'[p] # "idle")
            => LET c == call'[p]
                   invalid ==
                     \/ /\ c.op = "arabicToRoman"
                        /\ (c.k \in {"half", "NaN"} \/ c.a < 1 \/ c.a > 3999)
                     \/ /\ c.op = "romanToArabic"
                        /\ (toUpperCase(trim(c.r)) = << >>
                            \/ ~isValidRomanNumeral(toUpperCase(trim(c.r))))
               IN  invalid => /\ pc'[p] = "done"
                              /\ res'[p] = Result("ValidationError")
                              /\ issued'[p] = << >>
                              /\ pc'[Bg(p)] = "idle"
                              /\ store' = store
                              /\ clients' = clients
       /\ res[p] = Result("ValidationError")
            => /\ pc'[p] = "done"
               /\ res'[p] = res[p]
               /\ issued'[p] = << >>
               /\ pc'[Bg(p)] = "idle"]_vars

\* C12 witness: a request with a non-integer number and a request with the
\* empty string have both been rejected.
C12_Witness ==
  \E p \in Procs, q \in Procs :
    /\ call[p].op = "arabicToRoman" /\ call[p].k = "half"
    /\ res[p] = Result("ValidationError")
    /\ call[q].op = "romanToArabic" /\ call[q].r = << >>
    /\ res[q] = Result("ValidationError")

\* C13: when the cache lookup of a request fails, the request fails with the
\* error of the lookup: no value is computed for it and no save is issued,
\* then or later. A lookup ends in one of three ways only: refused or failed,
\* with that error and nothing else; answered with a value, which is returned;
\* answered with none, and the value is computed.
C13_ReadFailurePropagates ==
  /\ [][\A p \in Procs :
          (IsServiceCall(p) /\ Pending(p) /\ ~Pending(p)')
          => \/ /\ pc'[p] = "done"
                /\ res'[p] = Result("BackendUnavailable")
                /\ issued'[p] = << >>
                /\ pc'[Bg(p)] = "idle"
                /\ store' = store
             \/ /\ pc[p] = "exec" /\ Lookup(p).kind # "null"
                /\ res'[p] = Lookup(p) /\ issued'[p] = << >>
             \/ /\ pc[p] = "exec" /\ Lookup(p).kind = "null"
                /\ res'[p] = ExpectedReturn(p)
                /\ issued'[p] = << ExpectedSave(p) >>]_vars
  /\ [][\A p \in Procs :
          (pc[p] = "done" /\ res[p].kind = "BackendUnavailable")
          => (res'[p] = res[p] /\ issued'[p] = << >> /\ pc'[Bg(p)] = "idle")]_vars

\* C13 witness: the lookup of a request was refused a connection and the
\* lookup of another failed in flight; both requests have failed.
C13_Witness ==
  \E p \in Procs, q \in Procs :
    /\ p # q
    /\ IsServiceCall(p) /\ IsServiceCall(q)
    /\ res[p] = Result("BackendUnavailable")
    /\ res[q] = Result("BackendUnavailable")
    /\ issued[p] = << >> /\ issued[q] = << >>

\* C14: every numeral an arabicToRoman request returns for n is the canonical
\* numeral of n, the result of the greedy table conversion, whatever requests
\* and detached saves ran before on the initially empty cache.
C14_CanonicalOutput ==
  \A p \in Procs :
    (call[p].op = "arabicToRoman" /\ pc[p] = "done" /\ res[p].kind = "roman")
    => res[p].r = convertArabicToRoman(call[p].a)

\* C15: for every integer n in 1..3999, the greedy table conversion of n,
\* scanned back left to right with two-character symbols tried first, is n.
C15_RoundTrip ==
  \A t \in Tasks :
    (call[t].op = "arabicToRoman" /\ pc[t] = "done")
    => /\ res[t].kind = "arabic"
       /\ res[t].a = call[t].a
       /\ res[t].r = convertArabicToRoman(call[t].a)

\* C15 witness: 3888 went to MMMDCCCLXXXVIII, the longest numeral, and back.
C15_Witness ==
  \E t \in Tasks :
    /\ call[t].op = "arabicToRoman" /\ pc[t] = "done"
    /\ call[t].a = 3888 /\ res[t].a = 3888
    /\ Len(res[t].r) = 15

\* C16: every number a romanToArabic request returns is in 1..3999, and so is
\* the arabic value of every save the Service issues.
C16_ResultInRange ==
  /\ \A p \in Procs :
       (call[p].op = "romanToArabic" /\ pc[p] = "done" /\ res[p].kind = "arabic")
       => (1 <= res[p].a /\ res[p].a <= MaxValue)
  /\ \A p \in Procs : \A i \in DOMAIN issued[p] :
       1 <= issued[p][i][1] /\ issued[p][i][1] <= MaxValue

\* C17: a string whose normal form the validator accepts is in canonical
\* form: converted to a number and back to a numeral, the normal form is
\* what comes out.
C17_AcceptedIsCanonical ==
  \A t \in Tasks :
    (call[t].op = "romanToArabic" /\ pc[t] = "done" /\ res[t].kind = "arabic")
    => convertArabicToRoman(res[t].a) = toUpperCase(trim(call[t].r))

\* The strings C18 lists as rejected: empty, a character that is no numeral,
\* four I, X, C or M in a row, two V, L or D in a row, one of fourteen pairs,
\* or a doubled I, X or C before a numeral it may be subtracted from.
ListedAsRejected(s) ==
  \/ s = << >>
  \/ \E i \in 1..Len(s) : s[i] \notin {"I", "V", "X", "L", "C", "D", "M"}
  \/ \E i \in 1..(Len(s) - 3) :
       s[i] \in {"I", "X", "C", "M"}
       /\ s[i + 1] = s[i] /\ s[i + 2] = s[i] /\ s[i + 3] = s[i]
  \/ \E i \in 1..(Len(s) - 1) : s[i] \in {"V", "L", "D"} /\ s[i + 1] = s[i]
  \/ \E i \in 1..(Len(s) - 1) :
       <<s[i], s[i + 1]>> \in
         { <<"I","L">>, <<"I","C">>, <<"I","D">>, <<"I","M">>, <<"X","D">>,
           <<"X","M">>, <<"V","L">>, <<"V","C">>, <<"V","D">>, <<"V","M">>,
           <<"L","C">>, <<"L","D">>, <<"L","M">>, <<"D","M">> }
  \/ \E i \in 1..(Len(s) - 2) :
       /\ s[i + 1] = s[i]
       /\ \/ s[i] = "I" /\ s[i + 2] \in {"V", "X"}
          \/ s[i] = "X" /\ s[i + 2] \in {"L", "C"}
          \/ s[i] = "C" /\ s[i + 2] \in {"D", "M"}

\* The values C18 gives for the strings it lists as accepted (0: not listed).
ListedValue(s) ==
  CASE s = <<"M","M","X","X","I","I","I">> -> 2023
    [] s = <<"M","M","M","C","M","X","C","I","X">> -> 3999
    [] s = <<"I","V">> -> 4
    [] s = <<"I","X">> -> 9
    [] OTHER -> 0

\* C18, as stated: romanToArabic rejects every string that is listed as
\* rejected, and gives the listed strings their listed values.
C18_RejectsListed ==
  \A t \in Tasks :
    (call[t].op = "romanToArabic" /\ pc[t] = "done")
    => /\ ListedAsRejected(call[t].r) => res[t] = Result("ValidationError")
       /\ ListedValue(call[t].r) # 0
            => (res[t].kind = "arabic" /\ res[t].a = ListedValue(call[t].r))

\* C18, amended: romanToArabic rejects every string whose trimmed, upper-cased
\* form is listed as rejected, as soon as it is validated, and gives the
\* strings whose trimmed, upper-cased form is listed their listed values.
C18_RejectsListedNormalForms ==
  \A t \in Tasks :
    (call[t].op = "romanToArabic" /\ pc[t] # "idle")
    => LET n == toUpperCase(trim(call[t].r))
       IN  /\ ListedAsRejected(n)
                => (pc[t] = "done" /\ res[t] = Result("ValidationError"))
           /\ ListedValue(n) # 0
                => \/ pc[t] = "scan"
                   \/ res[t].kind = "arabic" /\ res[t].a = ListedValue(n)

\* C18 witness: a string with a doubled I before V, blank and lower case
\* around it, has been rejected.
C18_Witness ==
  \E t \in Tasks :
    /\ call[t].op = "romanToArabic"
    /\ call[t].r = <<" ", "i", "I", "V">>
    /\ pc[t] = "done"
    /\ res[t] = Result("ValidationError")

\* What romanToArabic does with the string s when its lookup is answered in
\* the current state: the value it returns and the saves it issues.
RomanToArabicNow(s) == RomanToArabicAfterFind(s, findByRoman(s))

\* C19: a romanToArabic request with the string s has the outcome of a
\* request with uppercase(trim(s)): rejected if and only if that one is, and
\* when its lookup is answered, the value and the save that one would get in
\* the same state; the key looked up and the roman saved are
\* uppercase(trim(s)), so no saved roman holds a lower-case letter or a blank.
C19_CaseAndBlankInsensitive ==
  [][\A p \in Procs :
       /\ (pc[p] = "idle" /\ call'[p].op = "romanToArabic")
            => \A n \in {toUpperCase(trim(call'[p].r))} :
                 \A nn \in {toUpperCase(trim(n))} :
                   IF isValidRomanNumeral(nn)
                   THEN pc'[p] \in {"conn", "exec"}
                   ELSE pc'[p] = "done" /\ res'[p] = Result("ValidationError")
       /\ (call[p].op = "romanToArabic" /\ LookupAnswered(p))
            => \A n \in {toUpperCase(trim(call[p].r))} :
                 /\ res'[p] = RomanToArabicNow(n).ret
                 /\ issued'[p] = RomanToArabicNow(n).saves
                 /\ \A s \in Range(RomanToArabicNow(n).saves) :
                      /\ s[2] = n
                      /\ \A j \in DOMAIN n : n[j] \in {"I", "V", "X", "L", "C", "D", "M"}]_vars

\* C19 witness: the request " iv" has returned 4 and issued save(4, "IV").
C19_Witness ==
  \E p \in Procs :
    /\ call[p].op = "romanToArabic"
    /\ call[p].r = <<" ", "i", "v">>
    /\ res[p] = ArabicResult(4)
    /\ issued[p] = << <<4, <<"I", "V">>>> >>

\* C20: testInverseProperty(n) ends with a boolean, never with an error; the
\* boolean is false when n is invalid and when a cache lookup of the chain
\* failed; and for an integer n in 1..3999 it is true unless a lookup failed,
\* whatever romanToArabic requests stored before or store meanwhile.
C20_InverseNeverThrows ==
  \A p \in Procs :
    (IsTestInverse(p) /\ pc[p] = "done")
    => /\ res[p].kind = "boolean"
       /\ (call[p].k # "int" \/ call[p].a < 1 \/ call[p].a > MaxValue)
            => res[p] = Boolean(FALSE, <<"ValidationError">>)
       /\ res[p].r # << >> => res[p].a = 0
       /\ (call[p].k = "int" /\ 1 <= call[p].a /\ call[p].a <= MaxValue)
            => \/ res[p] = Boolean(TRUE, << >>)
               \/ res[p] = Boolean(FALSE, <<"BackendUnavailable">>)

\* C20 witness: testInverseProperty(5) has returned true on the non-canonical
\* numeral that a romanToArabic request had stored for 5.
C20_Witness ==
  \E p \in Procs :
    /\ call[p].op = "testInverseProperty.romanToArabic"
    /\ call[p].a = 5 /\ call[p].r = <<"I", "V", "I">>
    /\ pc[p] = "done"
    /\ res[p] = Boolean(TRUE, << >>)

\* The records of a set at positions offset .. offset + limit - 1 of its
\* ascending order by arabic: position i holds the record with i smaller ones.
ExpectedPage(records, limit, offset) ==
  LET rest == Cardinality(records) - offset
      n == IF rest < 0 THEN 0 ELSE IF rest < limit THEN rest ELSE limit
  IN  [i \in 1..n |->
         CHOOSE x \in records :
           Cardinality({ y \in records : y[1] < x[1] }) = offset + i - 1]

DeleteAllReturns(t) ==
  call[t].op = "deleteAll" /\ pc[t] # "done" /\ pc'[t] = "done" /\ res'[t].kind = "count"

\* C22: on Redis, with no other call in flight, deleteAll returns the number of
\* records stored when it was called, N after N non-conflicting inserts into an
\* empty store and 0 on an empty store.
C22_RedisDeleteAllReturnsN ==
  [][\A t \in Tasks :
       (backend = "redis" /\ DeleteAllReturns(t))
       => res'[t].a = Cardinality(Records)]_vars

\* C23: on Postgres, with no other call in flight, deleteAll returns the number
\* of rows stored when it was called, N after N non-conflicting inserts into an
\* empty table and 0 on an empty table.
C23_PgDeleteAllReturnsN ==
  [][\A t \in Tasks :
       (backend = "postgres" /\ DeleteAllReturns(t))
       => res'[t].a = Cardinality(Records)]_vars

\* C23 witness: a Postgres deleteAll has returned MaxArabic and the table is
\* empty.
C23_Witness ==
  /\ backend = "postgres"
  /\ rows = {}
  /\ \E t \in Tasks : res[t].kind = "count" /\ res[t].a = MaxArabic

\* Task t's save of a pair is executed by the backend in this step.
SaveStep(t) == pc[t] = "exec" /\ RepoOp(t) = "save" /\ pc'[t] # "exec"

\* Nothing is stored: getAll has no items and total 0, and every lookup is null.
StoreEmpty ==
  /\ getAllTotal = 0
  /\ Listing = {}
  /\ \A limit \in Limits, offset \in Offsets :
       /\ RedisGetAllData(sortedSet, limit, offset) = << >>
       /\ PgGetAllData(rows, limit, offset) = << >>
  /\ \A a \in ArabicVals : findByArabic(a).kind = "null"
  /\ \A r \in RomanVals : findByRoman(r).kind = "null"

\* C24: with no other call in flight, a deleteAll leaves the store empty
\* (getAll has no items and total 0, findByArabic and findByRoman return null
\* for every key), and the save that follows inserts its pair whatever it is.
C24_DeleteAllEmpties ==
  [][/\ ClearStep => StoreEmpty'
     /\ \A t \in Tasks : \A c \in {call[t]} :
          (SaveStep(t) /\ StoreEmpty)
          => /\ Records' = {<<c.a, c.r>>}
             /\ findByArabic(c.a)' = [kind |-> "roman", a |-> 0, r |-> c.r]
             /\ findByRoman(c.r)' = [kind |-> "arabic", a |-> c.a, r |-> <<>>]
             /\ getAllTotal' = 1]_vars

\* C24 witness: a deleteAll that found MaxArabic records has returned and
\* nothing is stored.
C24_Witness ==
  /\ StoreEmpty
  /\ \E t \in Tasks : pc[t] = "done" /\ res[t].kind = "count" /\ res[t].a >= MaxArabic

\* Task t's isHealthy settles in this step.
IsHealthySettles(t) == call[t].op = "isHealthy" /\ pc[t] # "done" /\ pc'[t] = "done"

\* C25: isHealthy settles with a boolean on either backend, true when the probe
\* succeeded and false when the backend could not be reached or no connection
\* could be obtained, never with an error, and leaves every record as it was.
C25_IsHealthyBoolean ==
  [][\A t \in Tasks :
       IsHealthySettles(t)
       => /\ res'[t].kind = "boolean"
          /\ ExecPing(t) => res'[t].a = 1
          /\ (ExecFail(t) \/ ConnectFail(t)) => res'[t].a = 0
          /\ store' = store]_vars

\* Task t's save on Postgres settles in this step.
PgSaveSettles(t) ==
  backend = "postgres" /\ call[t].op = "save" /\ pc[t] # "done" /\ pc'[t] = "done"

\* A stored row has the arabic or the roman of task t's pair.
PgConflict(t) == \E w \in rows : w.arabic = call[t].a \/ w.roman = call[t].r

\* What holds of a Postgres save whatever the failure: a conflict on arabic
\* or on roman is a successful no-op, a connectivity error is propagated, and
\* the rows are unchanged on these paths and whenever an error is returned.
PgSaveOutcome(t) ==
  /\ (ExecSave(t) /\ PgConflict(t)) => (res'[t].kind = "void" /\ rows' = rows)
  /\ (ConnectFail(t) \/ ExecFail(t))
     => (res'[t].kind = "BackendUnavailable" /\ rows' = rows)
  /\ res'[t].kind \in Errors => rows' = rows
  /\ res'[t].kind \in Errors \cup {"void"}

C27_AnomalyPropagates ==
  [][\A t \in Tasks :
       (PgSaveSettles(t) /\ pc[t] = "exec" /\ ~PgConflict(t) /\ rows' = rows)
       => res'[t].kind \in Errors]_vars

\* C29: on Redis, under any interleaving of concurrent saves and nothing else,
\* the arabic keys, the roman keys and the sorted index describe the same set
\* of pairs in every state, and the index has as many members as there are
\* arabic keys (and roman keys).
C29_SaveIsAtomic ==
  backend = "redis"
  => /\ ArabicSide = RomanSide
     /\ RomanSide = Listing
     /\ Cardinality(sortedSet) = Cardinality(DOMAIN arabicKV)
     /\ Cardinality(sortedSet) = Cardinality(DOMAIN romanKV)

\* C29 witness: on Redis, two pairs are stored and a save that conflicts with
\* one of them has run.
C29_Witness ==
  /\ backend = "redis"
  /\ Cardinality(sortedSet) = 2
  /\ Len(saveLog) > 2

\* C30: a getAll that ran among concurrent saves (and no deleteAll) has
\* returned a total that is at most the number of records stored now, items
\* that are all stored now, in whatever state after its return, and items in
\* strictly ascending order of arabic, none twice.
C30_RacingGetAll ==
  \A t \in Tasks :
    res[t].kind = "page"
    => /\ res[t].total <= Cardinality(Records)
       /\ \A i \in DOMAIN res[t].data : res[t].data[i] \in Records
       /\ \A i \in DOMAIN res[t].data, j \in DOMAIN res[t].data :
            i < j => res[t].data[i][1] < res[t].data[j][1]

\* C30 witness: a save ran between the two round trips of a getAll, which
\* returned more items than its total.
C30_Witness ==
  \E t \in Tasks :
    /\ res[t].kind = "page"
    /\ Len(res[t].data) > res[t].total
    /\ Len(res[t].data) > 1

\* C28: after every step of a sequence of save, findByArabic, findByRoman,
\* getAll and deleteAll calls applied to both backends from the empty store,
\* the call has returned the same result on Redis and on Postgres, and both
\* hold the same set of pairs.
C28_Interchangeable ==
  backend = "both"
  => /\ res[1] = res[2]
     /\ sortedSet = { <<w.arabic, w.roman>> : w \in rows }
     /\ { <<a, arabicKV[a]>> : a \in DOMAIN arabicKV } = { <<w.arabic, w.roman>> : w \in rows }
     /\ { <<parseInt(romanKV[r]), r>> : r \in DOMAIN romanKV } = { <<w.arabic, w.roman>> : w \in rows }

\* C31: for every limit >= 0 and offset >= 0, a page getAll(limit, offset)
\* has returned holds at most limit items; getAll(0, 0) returns none.
C31_AtMostLimitItems ==
  \A t \in Tasks :
    res[t].kind = "page" => Len(res[t].data) <= res[t].limit

\* C35: for every integer n in 1..MaxValue the loops of convertArabicToRoman
\* end with remaining = 0 after appending at most 15 table symbols, and the
\* numeral returned has at most 15 characters.
C35_GreedyBounded ==
  (call[1].op = "arabicToRoman" /\ pc[1] # "idle")
  => \A run \in {GreedyLoop(call[1].a, 1, << >>, 0)} :
       /\ run.result = res[1].r
       /\ run.remaining = 0
       /\ run.appended <= 15
       /\ Len(res[1].r) <= 15

\* C35 witness: a number has been converted with 15 symbols appended, giving
\* 15 characters.
C35_Witness ==
  /\ call[1].op = "arabicToRoman"
  /\ pc[1] # "idle"
  /\ Len(res[1].r) = 15
  /\ GreedyLoop(call[1].a, 1, << >>, 0).appended = 15

\* The repository methods the Service calls.
ServiceRepoOps == {"none", "findByArabic", "findByRoman", "save"}

\* C34: whatever requests the Service runs (arabicToRoman, romanToArabic,
\* testInverseProperty, and their detached saves), the only repository methods
\* in flight are findByArabic, findByRoman and save, never deleteAll or
\* getAll, and every step leaves each stored record stored and unchanged.
C34_ServiceOnlyInserts ==
  [][/\ \/ call' = call
        \/ \A t \in Tasks : RepoOp(t)' \in ServiceRepoOps
     /\ \/ store' = store
        \/ /\ ArabicSide \subseteq ArabicSide'
           /\ RomanSide \subseteq RomanSide'
           /\ Listing \subseteq Listing']_vars

\* C34 witness: testInverseProperty and romanToArabic requests have run, a
\* record is stored, and a detached save of another pair that met it has ended.
C34_Witness ==
  /\ Cardinality(Records) = 1
  /\ \E p \in Procs : res[p].kind = "boolean"
  /\ \E p \in Procs : Len(issued[p]) > 0 /\ issued[p][1] \notin Records
                        /\ pc[Bg(p)] = "done"

\* Request p has missed the cache and issued the save of what it computed.
Missed(p) == IsServiceCall(p) /\ issued[p] # << >>

\* What request p computed on its miss is what the cache returns: a value
\* for its number, or the computed number for its normalized string.
Cached(p) ==
  IF call[p].op = "arabicToRoman"
  THEN findByArabic(call[p].a).kind = "roman"
  ELSE /\ issued[p] # << >>
       /\ findByRoman(Normalize(call[p].r))
            = [kind |-> "arabic", a |-> issued[p][1][1], r |-> <<>>]

\* C32: with the backend available and no deleteAll, after a request misses
\* the cache, eventually findByArabic(n) returns a value (arabicToRoman(n)),
\* or findByRoman of the normalized string returns the number computed
\* (romanToArabic(s)).
C32_MissEventuallyCached ==
  \A p \in Procs : Missed(p) ~> Cached(p)

\* The pairs with arabic n in a set of pairs.
WithArabic(pairs, n) == { x \in pairs : x[1] = n }

\* C33: concurrent arabicToRoman requests for the same n on an empty cache
\* return the same numeral, and once none of them or of their detached saves
\* is in flight, exactly one record with arabic n is stored.
C33_SameValueOneRecord ==
  /\ \A p \in Procs, q \in Procs :
       (pc[p] = "done" /\ pc[q] = "done" /\ res[p].kind = "roman" /\ res[q].kind = "roman")
       => (res[p].r = res[q].r /\ res[p].r = convertArabicToRoman(call[p].a))
  /\ \A p \in Procs :
       (call[p].op = "arabicToRoman" /\ \A t \in Tasks : pc[t] \in {"idle", "done"})
       => /\ Cardinality(WithArabic(ArabicSide, call[p].a)) = 1
          /\ Cardinality(WithArabic(RomanSide, call[p].a)) = 1
          /\ Cardinality(WithArabic(Listing, call[p].a)) = 1
          /\ Cardinality(Records) = 1

\* C33 witness: every request slot has asked for the same number, each of
\* them missed and issued a save, all have returned and all the saves ended.
C33_Witness ==
  /\ \A p \in 1..NumRequests :
       pc[p] = "done" /\ res[p].kind = "roman" /\ Len(issued[p]) = 1
  /\ \A t \in Tasks : pc[t] \in {"idle", "done"}
  /\ Cardinality(Records) = 1

\* The tasks that hold a pooled client: connected, not yet released.
Holders == { t \in Tasks : pc[t] \in {"exec", "range"} }

====
